---- MODULE Spec2Model ----
(***************************************************************************)
(* Password-Hardened Encryption (phe-go): server engine (server.go),       *)
(* client engine and record updater (utils.go, client part), and the       *)
(* random / hash primitives (utils.go, first part).                        *)
(*                                                                         *)
(* The P-256 group is cyclic of prime order n, so a point is modelled by   *)
(* its discrete logarithm to the base G: the point k*G is the residue k,   *)
(* the point at infinity is 0, point addition is addition mod n and        *)
(* scalar multiplication is multiplication mod n.  The model keeps the     *)
(* group order prime and small (N), a byte has ByteRadix values and a      *)
(* scalar buffer holds ScalarLen of them, so that the entropy source can   *)
(* deliver values >= N exactly as 32 random bytes can exceed n.            *)
(***************************************************************************)
EXTENDS Integers, Sequences, FiniteSets, TLC

\* ------------------------------------------------------------------ bounds
\* passwords are the one-byte strings <<1>> .. <<MaxPassword>>
MaxPassword == 2
\* nonces (NS, NC) are the one-byte strings <<0>> .. <<MaxNonce>>
MaxNonce == 0
\* the random buffers mBuf are the one-byte strings <<0>> .. <<MaxBuf>>
MaxBuf == 1

\* --------------------------------------------------------- curve and bytes
\* group order n of the curve (curve.Params().N)
N == 5
\* number of values of one byte of a scalar buffer
ByteRadix == 2
\* number of bytes of a scalar buffer (make([]byte, 32))
ScalarLen == 3
\* leading byte of an uncompressed point
PointTag == 4
\* the base point G, as a discrete logarithm
curveG == 1

\* domain separation tags
dhc0 == 0
dhc1 == 1
dhs0 == 2
dhs1 == 3
dm == 4
proofOk == 5
proofError == 6

Passwords == {<<p>> : p \in 1..MaxPassword}
Nonces == {<<k>> : k \in 0..MaxNonce}
Buffers == {<<k>> : k \in 0..MaxBuf}
\* every value 32 random bytes can take
Entropy == [1..ScalarLen -> 0..(ByteRadix - 1)]

\* big.Int.SetBytes: big-endian bytes to integer (any length, no reduction)
RECURSIVE SetBytes(_)
SetBytes(b) ==
    IF Len(b) = 0 THEN 0
    ELSE SetBytes(SubSeq(b, 1, Len(b) - 1)) * ByteRadix + b[Len(b)]

\* big.Int.Bytes: minimal big-endian bytes (empty for zero)
RECURSIVE Bytes(_)
Bytes(v) ==
    IF v = 0 THEN <<>>
    ELSE Append(Bytes(v \div ByteRadix), v % ByteRadix)

\* ------------------------------------------------------------ scalar field
gfAdd(a, b) == (a + b) % N
gfMul(a, b) == (a * b) % N
gfNeg(a) == (N - (a % N)) % N
gfMulBytes(a, b) == gfMul(SetBytes(a), b)
gfAddBytes(a, b) == gfAdd(SetBytes(a), b)
\* Inv(0) is undefined and fails
gfInvFails(a) == a % N = 0
gfInv(a) == CHOOSE b \in 1..(N - 1) : (a * b) % N = 1

\* ------------------------------------------------------------------ points
pAdd(p, q) == (p + q) % N
pNeg(p) == (N - p) % N
pScalarMultInt(p, k) == (p * k) % N
pScalarMult(p, k) == pScalarMultInt(p, SetBytes(k))
pScalarBaseMultInt(k) == pScalarMultInt(curveG, k)
pScalarBaseMult(k) == pScalarMult(curveG, k)
pEqual(p, q) == p = q

\* 0x04 || coordinates; the point at infinity has the coordinates (0, 0)
Marshal(p) == <<PointTag, p>>
\* rejects a wrong length, a wrong tag, coordinates off the curve and (0, 0)
PointUnmarshalFails(b) ==
    \/ Len(b) # 2
    \/ b[1] # PointTag
    \/ b[2] \notin 1..(N - 1)
PointUnmarshal(b) == b[2]

\* ------------------------------------------------------------------ hashes
RECURSIVE ConcatAll(_)
ConcatAll(fields) ==
    IF Len(fields) = 0 THEN <<>>
    ELSE fields[1] \o ConcatAll(Tail(fields))

\* a deterministic digest of a byte string (stands for SHA-256 / SWU input mixing)
RECURSIVE Mix(_)
Mix(data) ==
    IF Len(data) = 0 THEN 1
    ELSE (Mix(SubSeq(data, 1, Len(data) - 1)) * 7 + data[Len(data)] + 3) % 61

\* swu.HashToPoint: a point of the curve, never infinity
swuHashToPoint(data) == 1 + (Mix(data) % (N - 1))

GroupHash(data, extraByte) == swuHashToPoint(Append(data, extraByte))

hashToPoint(tag, fields) == GroupHash(<<tag>> \o ConcatAll(fields), 0)

\* the i-th 32-byte block read from hkdf.New(sha256.New, data, data, "HashZ")
kdfRead(data, i) == (Mix(data) * 3 + 5 * i) % (ByteRadix ^ ScalarLen)

\* HashZ: read blocks until one is below N
RECURSIVE HashZFrom(_, _)
HashZFrom(data, i) ==
    IF kdfRead(data, i) >= N THEN HashZFrom(data, i + 1)
    ELSE kdfRead(data, i)
HashZ(data) == HashZFrom(data, 0)

hashZ(tag, fields) == HashZ(<<tag>> \o ConcatAll(fields))

\* hkdf.New(sha512.New512_256, ikm, nil, "Secret") read for 32 bytes
hkdfSecret(ikm) == <<Mix(ikm)>> \o ikm

\* RandomZ on one read of the entropy source: out of range panics
RandomZ(priv) ==
    IF SetBytes(priv) >= N
    THEN [panic |-> TRUE, z |-> 0]
    ELSE [panic |-> FALSE, z |-> SetBytes(priv)]


\* ---------------------------------------------------------------- messages
NilProofOfSuccess == [Term1 |-> <<>>, Term2 |-> <<>>, Term3 |-> <<>>, BlindX |-> <<>>]
NilProofOfFail ==
    [Term1 |-> <<>>, Term2 |-> <<>>, Term3 |-> <<>>, Term4 |-> <<>>,
     BlindA |-> <<>>, BlindB |-> <<>>]
\* a nil pointer to a message
NilEnrollmentResponse == [nil |-> TRUE]
NilRecord == [nil |-> TRUE]
NilRequest == [nil |-> TRUE]
NilResponse == [nil |-> TRUE]
NilToken == [nil |-> TRUE]
NoError == "nil"

\* length-prefixed concatenation of the public point and the private scalar
marshalKeypair(publicKey, privateKey) ==
    <<Len(publicKey)>> \o publicKey \o <<Len(privateKey)>> \o privateKey
unmarshalKeypairFails(b) ==
    \/ Len(b) < 2
    \/ Len(b) < b[1] + 2
    \/ Len(b) # b[1] + 2 + b[b[1] + 2]
unmarshalKeypair(b) ==
    [PublicKey |-> SubSeq(b, 2, b[1] + 1),
     PrivateKey |-> SubSeq(b, b[1] + 3, Len(b))]

\* ---------------------------------------------------------- server engine
GenerateServerKeypair(priv) ==
    LET rz == RandomZ(priv)
        privateKey == Bytes(rz.z)
        publicKey == pScalarBaseMult(privateKey)
    IN  IF rz.panic THEN [panic |-> TRUE, keypair |-> <<>>]
        ELSE [panic |-> FALSE,
              keypair |-> marshalKeypair(Marshal(publicKey), privateKey)]

GetPublicKey(serverKeypair) ==
    IF unmarshalKeypairFails(serverKeypair)
    THEN [err |-> "invalid keypair", key |-> <<>>]
    ELSE [err |-> NoError, key |-> unmarshalKeypair(serverKeypair).PublicKey]

eval(kp, ns) ==
    LET hs0 == hashToPoint(dhs0, <<ns>>)
        hs1 == hashToPoint(dhs1, <<ns>>)
    IN  [hs0 |-> hs0, hs1 |-> hs1,
         c0 |-> pScalarMult(hs0, kp.PrivateKey),
         c1 |-> pScalarMult(hs1, kp.PrivateKey)]

proveSuccess(kp, hs0, hs1, c0, c1, priv) ==
    LET rz == RandomZ(priv)
        blindX == rz.z
        term1 == pScalarMult(hs0, Bytes(blindX))
        term2 == pScalarMult(hs1, Bytes(blindX))
        term3 == pScalarBaseMult(Bytes(blindX))
        challenge == hashZ(proofOk, <<kp.PublicKey, Marshal(curveG), Marshal(c0),
                                      Marshal(c1), Marshal(term1), Marshal(term2),
                                      Marshal(term3)>>)
        res == gfAdd(blindX, gfMulBytes(kp.PrivateKey, challenge))
    IN  IF rz.panic THEN [panic |-> TRUE, proof |-> NilProofOfSuccess]
        ELSE [panic |-> FALSE,
              proof |-> [Term1 |-> Marshal(term1), Term2 |-> Marshal(term2),
                         Term3 |-> Marshal(term3), BlindX |-> Bytes(res)]]

GetEnrollment(serverKeypair, ns, priv) ==
    LET kp == unmarshalKeypair(serverKeypair)
        e == eval(kp, ns)
        p == proveSuccess(kp, e.hs0, e.hs1, e.c0, e.c1, priv)
    IN  IF unmarshalKeypairFails(serverKeypair)
        THEN [panic |-> FALSE, err |-> "invalid keypair", response |-> NilEnrollmentResponse]
        ELSE IF p.panic
        THEN [panic |-> TRUE, err |-> NoError, response |-> NilEnrollmentResponse]
        ELSE [panic |-> FALSE, err |-> NoError,
              response |-> [NS |-> ns, C0 |-> Marshal(e.c0), C1 |-> Marshal(e.c1),
                            Proof |-> p.proof]]

\* rnd = <<r, blindA, blindB>>: the three reads of the entropy source, in order
proveFailure(kp, c0, hs0, rnd) ==
    LET rr == RandomZ(rnd[1])
        r == rr.z
        minusR == gfNeg(r)
        minusRX == gfMulBytes(kp.PrivateKey, minusR)
        c1 == pAdd(pScalarMult(c0, Bytes(r)), pScalarMult(hs0, Bytes(minusRX)))
        a == r
        b == minusRX
        ra == RandomZ(rnd[2])
        rb == RandomZ(rnd[3])
        blindA == Bytes(ra.z)
        blindB == Bytes(rb.z)
        publicKey == PointUnmarshal(kp.PublicKey)
        term1 == pScalarMult(c0, blindA)
        term2 == pScalarMult(hs0, blindB)
        term3 == pScalarMult(publicKey, blindA)
        term4 == pScalarBaseMult(blindB)
        challenge == hashZ(proofError, <<kp.PublicKey, Marshal(curveG), Marshal(c0),
                                         Marshal(c1), Marshal(term1), Marshal(term2),
                                         Marshal(term3), Marshal(term4)>>)
    IN  IF rr.panic \/ ra.panic \/ rb.panic
        THEN [panic |-> TRUE, err |-> NoError, c1 |-> 0, proof |-> NilProofOfFail]
        ELSE IF PointUnmarshalFails(kp.PublicKey)
        THEN [panic |-> FALSE, err |-> "Invalid curve point", c1 |-> c1,
              proof |-> NilProofOfFail]
        ELSE [panic |-> FALSE, err |-> NoError, c1 |-> c1,
              proof |-> [Term1 |-> Marshal(term1), Term2 |-> Marshal(term2),
                         Term3 |-> Marshal(term3), Term4 |-> Marshal(term4),
                         BlindA |-> Bytes(gfAddBytes(blindA, gfMul(challenge, a))),
                         BlindB |-> Bytes(gfAddBytes(blindB, gfMul(challenge, b)))]]

\* the success branch reads the entropy source once (rnd[1]), the failure branch
\* three times
VerifyPassword(serverKeypair, req, rnd) ==
    LET kp == unmarshalKeypair(serverKeypair)
        ns == req.NS
        c0 == PointUnmarshal(req.C0)
        hs0 == hashToPoint(dhs0, <<ns>>)
        hs1 == hashToPoint(dhs1, <<ns>>)
        c1 == pScalarMult(hs1, kp.PrivateKey)
        ps == proveSuccess(kp, hs0, hs1, c0, c1, rnd[1])
        pf == proveFailure(kp, c0, hs0, rnd)
    IN  IF unmarshalKeypairFails(serverKeypair)
        THEN [panic |-> FALSE, err |-> "invalid keypair", response |-> NilResponse]
        ELSE IF req = NilRequest \/ Len(req.NS) > 32 \/ Len(req.NS) = 0
        THEN [panic |-> FALSE, err |-> "Invalid password verify request",
              response |-> NilResponse]
        ELSE IF PointUnmarshalFails(req.C0)
        THEN [panic |-> FALSE, err |-> "Invalid curve point", response |-> NilResponse]
        ELSE IF pEqual(pScalarMult(hs0, kp.PrivateKey), c0)
        THEN IF ps.panic
             THEN [panic |-> TRUE, err |-> NoError, response |-> NilResponse]
             ELSE [panic |-> FALSE, err |-> NoError,
                   response |-> [Res |-> TRUE, C1 |-> Marshal(c1),
                                 ProofSuccess |-> ps.proof,
                                 ProofFail |-> NilProofOfFail]]
        ELSE IF pf.panic
        THEN [panic |-> TRUE, err |-> NoError, response |-> NilResponse]
        ELSE IF pf.err # NoError
        THEN [panic |-> FALSE, err |-> pf.err, response |-> NilResponse]
        ELSE [panic |-> FALSE, err |-> NoError,
              response |-> [Res |-> FALSE, C1 |-> Marshal(pf.c1),
                            ProofSuccess |-> NilProofOfSuccess,
                            ProofFail |-> pf.proof]]

\* rnd = <<a, b>>: the two reads of the entropy source
Rotate(serverKeypair, rnd) ==
    LET kp == unmarshalKeypair(serverKeypair)
        ra == RandomZ(rnd[1])
        rb == RandomZ(rnd[2])
        newPrivate == Bytes(gfAdd(gfMulBytes(kp.PrivateKey, ra.z), rb.z))
        newPublic == pScalarBaseMult(newPrivate)
    IN  IF unmarshalKeypairFails(serverKeypair)
        THEN [panic |-> FALSE, err |-> "invalid keypair", token |-> NilToken,
              newServerKeypair |-> <<>>]
        ELSE IF ra.panic \/ rb.panic
        THEN [panic |-> TRUE, err |-> NoError, token |-> NilToken,
              newServerKeypair |-> <<>>]
        ELSE [panic |-> FALSE, err |-> NoError,
              token |-> [A |-> Bytes(ra.z), B |-> Bytes(rb.z)],
              newServerKeypair |-> marshalKeypair(Marshal(newPublic), newPrivate)]

\* ---------------------------------------------------------- client engine
NilClient ==
    [clientPrivateKey |-> 0, clientPrivateKeyBytes |-> <<>>,
     serverPublicKey |-> 0, serverPublicKeyBytes |-> <<>>]

GenerateClientKey(priv) ==
    LET rz == RandomZ(priv)
    IN  [panic |-> rz.panic, key |-> Bytes(rz.z)]

NewClient(privateKey, serverPublicKey) ==
    IF Len(privateKey) = 0
    THEN [err |-> "invalid private key", client |-> NilClient]
    ELSE IF PointUnmarshalFails(serverPublicKey)
    THEN [err |-> "invalid public key", client |-> NilClient]
    ELSE [err |-> NoError,
          client |-> [clientPrivateKey |-> SetBytes(privateKey),
                      serverPublicKey |-> PointUnmarshal(serverPublicKey),
                      clientPrivateKeyBytes |-> privateKey,
                      serverPublicKeyBytes |-> serverPublicKey]]

\* ProofOfSuccess.parse: every term must decode as a point; the scalar is read
\* as big-endian bytes
proofOfSuccessParseFails(proof) ==
    \/ PointUnmarshalFails(proof.Term1)
    \/ PointUnmarshalFails(proof.Term2)
    \/ PointUnmarshalFails(proof.Term3)

proofOfFailParseFails(proof) ==
    \/ PointUnmarshalFails(proof.Term1)
    \/ PointUnmarshalFails(proof.Term2)
    \/ PointUnmarshalFails(proof.Term3)
    \/ PointUnmarshalFails(proof.Term4)

recordParseFails(rec) ==
    \/ rec = NilRecord
    \/ PointUnmarshalFails(rec.T0)
    \/ PointUnmarshalFails(rec.T1)

tokenParseFails(token) == token = NilToken

validateProofOfSuccess(c, proof, nonce, c0, c1, c0b, c1b) ==
    LET term1 == PointUnmarshal(proof.Term1)
        term2 == PointUnmarshal(proof.Term2)
        term3 == PointUnmarshal(proof.Term3)
        blindX == SetBytes(proof.BlindX)
        hs0 == hashToPoint(dhs0, <<nonce>>)
        hs1 == hashToPoint(dhs1, <<nonce>>)
        challenge == hashZ(proofOk, <<c.serverPublicKeyBytes, Marshal(curveG), c0b, c1b,
                                      proof.Term1, proof.Term2, proof.Term3>>)
    IN  IF proofOfSuccessParseFails(proof) THEN FALSE
        ELSE IF ~pEqual(pAdd(term1, pScalarMultInt(c0, challenge)),
                        pScalarMultInt(hs0, blindX)) THEN FALSE
        ELSE IF ~pEqual(pAdd(term2, pScalarMultInt(c1, challenge)),
                        pScalarMultInt(hs1, blindX)) THEN FALSE
        ELSE IF ~pEqual(pAdd(term3, pScalarMultInt(c.serverPublicKey, challenge)),
                        pScalarBaseMultInt(blindX)) THEN FALSE
        ELSE TRUE

\* nc and mBuf are the two reads of rand.Read
EnrollAccount(c, password, resp, nc, mBuf) ==
    LET c0 == PointUnmarshal(resp.C0)
        c1 == PointUnmarshal(resp.C1)
        hc0 == hashToPoint(dhc0, <<nc, password>>)
        hc1 == hashToPoint(dhc1, <<nc, password>>)
        m == hashToPoint(dm, <<mBuf>>)
        key == hkdfSecret(Marshal(m))
        t0 == pAdd(c0, pScalarMultInt(hc0, c.clientPrivateKey))
        t1 == pAdd(pAdd(c1, pScalarMultInt(hc1, c.clientPrivateKey)),
                   pScalarMultInt(m, c.clientPrivateKey))
    IN  IF resp = NilEnrollmentResponse
        THEN [err |-> "invalid proof", rec |-> NilRecord, key |-> <<>>]
        ELSE IF PointUnmarshalFails(resp.C0) \/ PointUnmarshalFails(resp.C1)
        THEN [err |-> "Invalid curve point", rec |-> NilRecord, key |-> <<>>]
        ELSE IF ~validateProofOfSuccess(c, resp.Proof, resp.NS, c0, c1, resp.C0, resp.C1)
        THEN [err |-> "invalid proof", rec |-> NilRecord, key |-> <<>>]
        ELSE [err |-> NoError,
              rec |-> [NS |-> resp.NS, NC |-> nc, T0 |-> Marshal(t0), T1 |-> Marshal(t1)],
              key |-> key]

CreateVerifyPasswordRequest(c, password, rec) ==
    LET hc0 == hashToPoint(dhc0, <<rec.NC, password>>)
        minusY == gfNeg(c.clientPrivateKey)
        t0 == PointUnmarshal(rec.T0)
        c0 == pAdd(t0, pScalarMultInt(hc0, minusY))
    IN  IF rec = NilRecord \/ Len(rec.NC) = 0 \/ Len(rec.NS) = 0 \/ Len(rec.T0) = 0
        THEN [err |-> "invalid client record", req |-> NilRequest]
        ELSE IF PointUnmarshalFails(rec.T0)
        THEN [err |-> "invalid proof", req |-> NilRequest]
        ELSE [err |-> NoError, req |-> [C0 |-> Marshal(c0), NS |-> rec.NS]]

validateProofOfFail(c, resp, c0, c1, hs0, hc0, hc1) ==
    LET proof == resp.ProofFail
        term1 == PointUnmarshal(proof.Term1)
        term2 == PointUnmarshal(proof.Term2)
        term3 == PointUnmarshal(proof.Term3)
        term4 == PointUnmarshal(proof.Term4)
        blindA == SetBytes(proof.BlindA)
        blindB == SetBytes(proof.BlindB)
        challenge == hashZ(proofError, <<c.serverPublicKeyBytes, Marshal(curveG),
                                         Marshal(c0), resp.C1, proof.Term1, proof.Term2,
                                         proof.Term3, proof.Term4>>)
    IN  IF proofOfFailParseFails(proof) THEN "invalid public key"
        ELSE IF ~pEqual(pAdd(pAdd(term1, term2), pScalarMultInt(c1, challenge)),
                        pAdd(pScalarMultInt(c0, blindA), pScalarMultInt(hs0, blindB)))
        THEN "proof verification failed"
        ELSE IF ~pEqual(pAdd(term3, term4),
                        pAdd(pScalarMultInt(c.serverPublicKey, blindA),
                             pScalarBaseMultInt(blindB)))
        THEN "verification failed"
        ELSE NoError

\* a CheckResponseAndDecrypt that trusts Res = true without looking at the proof
CheckResponseAndDecryptUnchecked(c, password, rec, resp) ==
    LET t1 == PointUnmarshal(rec.T1)
        c1 == PointUnmarshal(resp.C1)
        hc1 == hashToPoint(dhc1, <<rec.NC, password>>)
        minusY == gfNeg(c.clientPrivateKey)
        m == pScalarMultInt(pAdd(pAdd(t1, pNeg(c1)), pScalarMultInt(hc1, minusY)),
                            gfInv(c.clientPrivateKey))
    IN  IF resp = NilResponse
        THEN [panic |-> FALSE, key |-> <<>>, err |-> "invalid response"]
        ELSE IF recordParseFails(rec)
        THEN [panic |-> FALSE, key |-> <<>>, err |-> "invalid record"]
        ELSE IF PointUnmarshalFails(resp.C1)
        THEN [panic |-> FALSE, key |-> <<>>, err |-> "Invalid curve point"]
        ELSE IF resp.Res
        THEN IF gfInvFails(c.clientPrivateKey)
             THEN [panic |-> TRUE, key |-> <<>>, err |-> NoError]
             ELSE [panic |-> FALSE, key |-> hkdfSecret(Marshal(m)), err |-> NoError]
        ELSE [panic |-> FALSE, key |-> <<>>, err |-> "verification failed"]

CheckResponseAndDecrypt(c, password, rec, resp) ==
    LET t0 == PointUnmarshal(rec.T0)
        t1 == PointUnmarshal(rec.T1)
        c1 == PointUnmarshal(resp.C1)
        hc0 == hashToPoint(dhc0, <<rec.NC, password>>)
        hc1 == hashToPoint(dhc1, <<rec.NC, password>>)
        minusY == gfNeg(c.clientPrivateKey)
        c0 == pAdd(t0, pScalarMultInt(hc0, minusY))
        m == pScalarMultInt(pAdd(pAdd(t1, pNeg(c1)), pScalarMultInt(hc1, minusY)),
                            gfInv(c.clientPrivateKey))
        hs0 == hashToPoint(dhs0, <<rec.NS>>)
    IN  IF resp = NilResponse
        THEN [panic |-> FALSE, key |-> <<>>, err |-> "invalid response"]
        ELSE IF recordParseFails(rec)
        THEN [panic |-> FALSE, key |-> <<>>, err |-> "invalid record"]
        ELSE IF PointUnmarshalFails(resp.C1)
        THEN [panic |-> FALSE, key |-> <<>>, err |-> "Invalid curve point"]
        ELSE IF resp.Res
        THEN IF ~validateProofOfSuccess(c, resp.ProofSuccess, rec.NS, c0, c1,
                                        Marshal(c0), resp.C1)
             THEN [panic |-> FALSE, key |-> <<>>,
                   err |-> "result is ok but proof is invalid"]
             ELSE IF gfInvFails(c.clientPrivateKey)
             THEN [panic |-> TRUE, key |-> <<>>, err |-> NoError]
             ELSE [panic |-> FALSE, key |-> hkdfSecret(Marshal(m)), err |-> NoError]
        ELSE [panic |-> FALSE, key |-> <<>>,
              err |-> validateProofOfFail(c, resp, c0, c1, hs0, hc0, hc1)]

\* the four assignments of Client.Rotate, in order; k of them have been made
ClientRotateWrites(c, a, b, k) ==
    LET c1 == IF k >= 1
              THEN [c EXCEPT !.clientPrivateKey = gfMul(c.clientPrivateKey, a)]
              ELSE c
        c2 == IF k >= 2
              THEN [c1 EXCEPT !.clientPrivateKeyBytes = Bytes(c1.clientPrivateKey)]
              ELSE c1
        c3 == IF k >= 3
              THEN [c2 EXCEPT !.serverPublicKey =
                        pAdd(pScalarMultInt(c2.serverPublicKey, a), pScalarBaseMultInt(b))]
              ELSE c2
        c4 == IF k >= 4
              THEN [c3 EXCEPT !.serverPublicKeyBytes = Marshal(c3.serverPublicKey)]
              ELSE c3
    IN  c4

ClientRotate(c, token) ==
    IF tokenParseFails(token)
    THEN [err |-> "invalid token", client |-> c]
    ELSE [err |-> NoError,
          client |-> ClientRotateWrites(c, SetBytes(token.A), SetBytes(token.B), 4)]

\* an UpdateRecord that shifts T0 by b * HS1 and T1 by b * HS0
UpdateRecordSwapped(rec, token) ==
    LET a == SetBytes(token.A)
        b == SetBytes(token.B)
        t0 == PointUnmarshal(rec.T0)
        t1 == PointUnmarshal(rec.T1)
        hs0 == hashToPoint(dhs0, <<rec.NS>>)
        hs1 == hashToPoint(dhs1, <<rec.NS>>)
        t00 == pAdd(pScalarMultInt(t0, a), pScalarMultInt(hs1, b))
        t11 == pAdd(pScalarMultInt(t1, a), pScalarMultInt(hs0, b))
    IN  IF tokenParseFails(token)
        THEN [err |-> "invalid token", updRec |-> NilRecord]
        ELSE IF recordParseFails(rec)
        THEN [err |-> "invalid record", updRec |-> NilRecord]
        ELSE [err |-> NoError,
              updRec |-> [T0 |-> Marshal(t00), T1 |-> Marshal(t11),
                          NS |-> rec.NS, NC |-> rec.NC]]

UpdateRecord(rec, token) ==
    LET a == SetBytes(token.A)
        b == SetBytes(token.B)
        t0 == PointUnmarshal(rec.T0)
        t1 == PointUnmarshal(rec.T1)
        hs0 == hashToPoint(dhs0, <<rec.NS>>)
        hs1 == hashToPoint(dhs1, <<rec.NS>>)
        t00 == pAdd(pScalarMultInt(t0, a), pScalarMultInt(hs0, b))
        t11 == pAdd(pScalarMultInt(t1, a), pScalarMultInt(hs1, b))
    IN  IF tokenParseFails(token)
        THEN [err |-> "invalid token", updRec |-> NilRecord]
        ELSE IF recordParseFails(rec)
        THEN [err |-> "invalid record", updRec |-> NilRecord]
        ELSE [err |-> NoError,
              updRec |-> [T0 |-> Marshal(t00), T1 |-> Marshal(t11),
                          NS |-> rec.NS, NC |-> rec.NC]]

\* =================================================================== state
VARIABLES
    pc,             \* position of the scenario driving the two parties
    serverKeypair,  \* the server's marshalled keypair
    client,         \* the Client object
    enrollment,     \* EnrollmentResponse in flight
    password,       \* password given to EnrollAccount
    rec,            \* EnrollmentRecord in the client's database
    enrollErr,      \* error returned by EnrollAccount
    enrolledKey,    \* key returned by EnrollAccount
    attempt,        \* password given to the verification in progress
    req,            \* VerifyPasswordRequest in flight
    resp,           \* VerifyPasswordResponse in flight
    result,         \* what CheckResponseAndDecrypt returned
    token,          \* UpdateToken issued by the last server Rotate
    tokClient,      \* the token has been applied to the client
    tokRecord,      \* the token has been applied to the record
    old,            \* keypair, client and record as they were before the last Rotate
    rotated,        \* a rotation has been completed since enrollment
    lastErr,        \* error that ended the scenario
    call,           \* arguments of the single call under analysis
    entropy,        \* what the entropy source will deliver, read by read
    z,              \* RandomZ: its return value
    rzpc,           \* RandomZ: position in the function
    rotWrites,      \* Client.Rotate: how many of its assignments have been made
    reader          \* the operation running concurrently with Client.Rotate

vars == <<pc, serverKeypair, client, enrollment, password, rec, enrollErr, enrolledKey,
          attempt, req, resp, result, token, tokClient, tokRecord, old, rotated,
          lastErr, call, entropy, z, rzpc, rotWrites, reader>>

\* state of the analyses of single functions, untouched by the protocol scenario
aux == <<call, entropy, z, rzpc, rotWrites, reader>>
NilCall == [nil |-> TRUE]
NilReader == [nil |-> TRUE]

NilResult == [nil |-> TRUE]
NilOld == [nil |-> TRUE]

ProtocolInit ==
    /\ pc = "start"
    /\ serverKeypair = <<>>
    /\ client = NilClient
    /\ enrollment = NilEnrollmentResponse
    /\ password = <<>>
    /\ rec = NilRecord
    /\ enrollErr = NoError
    /\ enrolledKey = <<>>
    /\ attempt = <<>>
    /\ req = NilRequest
    /\ resp = NilResponse
    /\ result = NilResult
    /\ token = NilToken
    /\ tokClient = FALSE
    /\ tokRecord = FALSE
    /\ old = NilOld
    /\ rotated = FALSE
    /\ lastErr = NoError

AuxInit ==
    /\ call = NilCall
    /\ entropy = <<>>
    /\ z = -1
    /\ rzpc = "idle"
    /\ rotWrites = 0
    /\ reader = NilReader

Init == ProtocolInit /\ AuxInit

\* a panic ends the process; nothing else changes
Panics ==
    /\ pc' = "panic"
    /\ UNCHANGED <<serverKeypair, client, enrollment, password, rec, enrollErr,
                   enrolledKey, attempt, req, resp, result, token, tokClient,
                   tokRecord, old, rotated, lastErr>>

\* an error returned to the caller ends the scenario
Fails(err) ==
    /\ pc' = "failed"
    /\ lastErr' = err
    /\ UNCHANGED <<serverKeypair, client, enrollment, password, rec, enrollErr,
                   enrolledKey, attempt, req, resp, result, token, tokClient,
                   tokRecord, old, rotated>>

GenerateServerKeypairCall ==
    /\ UNCHANGED aux
    /\ pc = "start"
    /\ \E priv \in Entropy :
        LET r == GenerateServerKeypair(priv)
        IN  IF r.panic THEN Panics
               ELSE /\ serverKeypair' = r.keypair
                    /\ pc' = "serverReady"
                    /\ UNCHANGED <<client, enrollment, password, rec, enrollErr,
                                   enrolledKey, attempt, req, resp, result, token,
                                   tokClient, tokRecord, old, rotated, lastErr>>

\* GenerateClientKey, GetPublicKey and NewClient
NewClientCall ==
    /\ UNCHANGED aux
    /\ pc = "serverReady"
    /\ \E priv \in Entropy :
        LET k == GenerateClientKey(priv)
            pub == GetPublicKey(serverKeypair)
            r == NewClient(k.key, pub.key)
        IN  IF k.panic THEN Panics
               ELSE IF pub.err # NoError THEN Fails(pub.err)
               ELSE IF r.err # NoError THEN Fails(r.err)
               ELSE /\ client' = r.client
                    /\ pc' = "ready"
                    /\ UNCHANGED <<serverKeypair, enrollment, password, rec, enrollErr,
                                   enrolledKey, attempt, req, resp, result, token,
                                   tokClient, tokRecord, old, rotated, lastErr>>

GetEnrollmentCall ==
    /\ UNCHANGED aux
    /\ pc = "ready"
    /\ \E ns \in Nonces, priv \in Entropy :
        LET r == GetEnrollment(serverKeypair, ns, priv)
        IN  IF r.panic THEN Panics
               ELSE IF r.err # NoError THEN Fails(r.err)
               ELSE /\ enrollment' = r.response
                    /\ pc' = "enrolling"
                    /\ UNCHANGED <<serverKeypair, client, password, rec, enrollErr,
                                   enrolledKey, attempt, req, resp, result, token,
                                   tokClient, tokRecord, old, rotated, lastErr>>

EnrollAccountCall ==
    /\ UNCHANGED aux
    /\ pc = "enrolling"
    /\ \E pw \in Passwords, nc \in Nonces, mBuf \in Buffers :
        LET r == EnrollAccount(client, pw, enrollment, nc, mBuf)
        IN  /\ password' = pw
            /\ rec' = r.rec
            /\ enrollErr' = r.err
            /\ enrolledKey' = r.key
            /\ pc' = IF r.err = NoError THEN "enrolled" ELSE "failed"
            /\ lastErr' = r.err
            /\ UNCHANGED <<serverKeypair, client, enrollment, attempt, req, resp,
                           result, token, tokClient, tokRecord, old, rotated>>

\* a new verification starts; what the previous calls left behind is dropped
CreateVerifyPasswordRequestCall ==
    /\ UNCHANGED aux
    /\ pc \in {"enrolled", "rotated"}
    /\ \E pw \in Passwords :
        LET r == CreateVerifyPasswordRequest(client, pw, rec)
        IN  /\ attempt' = pw
            /\ req' = r.req
            /\ resp' = NilResponse
            /\ result' = NilResult
            /\ enrollment' = NilEnrollmentResponse
            /\ old' = NilOld
            /\ token' = NilToken
            /\ pc' = IF r.err = NoError THEN "requested" ELSE "failed"
            /\ lastErr' = r.err
            /\ UNCHANGED <<serverKeypair, client, password, rec, enrollErr,
                           enrolledKey, tokClient, tokRecord, rotated>>

VerifyPasswordCall ==
    /\ UNCHANGED aux
    /\ pc = "requested"
    /\ \E r1 \in Entropy, r2 \in Entropy, r3 \in Entropy :
        LET r == VerifyPassword(serverKeypair, req, <<r1, r2, r3>>)
        IN  IF r.panic THEN Panics
            ELSE IF r.err # NoError THEN Fails(r.err)
            ELSE /\ resp' = r.response
                 /\ pc' = "responded"
                 /\ UNCHANGED <<serverKeypair, client, enrollment, password, rec,
                                enrollErr, enrolledKey, attempt, req, result, token,
                                tokClient, tokRecord, old, rotated, lastErr>>

CheckResponseAndDecryptCall ==
    /\ UNCHANGED aux
    /\ pc = "responded"
    /\ LET r == CheckResponseAndDecrypt(client, attempt, rec, resp)
       IN  IF r.panic THEN Panics
           ELSE /\ result' = r
                /\ pc' = "checked"
                /\ UNCHANGED <<serverKeypair, client, enrollment, password, rec,
                               enrollErr, enrolledKey, attempt, req, resp, token,
                               tokClient, tokRecord, old, rotated, lastErr>>

\* the server rotates its keypair and issues the update token
RotateCall ==
    /\ UNCHANGED aux
    /\ pc \in {"enrolled", "rotated"}
    /\ \E ra \in Entropy, rb \in Entropy :
        LET r == Rotate(serverKeypair, <<ra, rb>>)
        IN  IF r.panic THEN Panics
               ELSE IF r.err # NoError THEN Fails(r.err)
               ELSE /\ serverKeypair' = r.newServerKeypair
                    /\ token' = r.token
                    /\ tokClient' = FALSE
                    /\ tokRecord' = FALSE
                    /\ old' = [serverKeypair |-> serverKeypair, client |-> client,
                               rec |-> rec]
                    /\ pc' = "rotating"
                    /\ attempt' = <<>>
                    /\ req' = NilRequest
                    /\ resp' = NilResponse
                    /\ result' = NilResult
                    /\ enrollment' = NilEnrollmentResponse
                    /\ UNCHANGED <<client, password, rec, enrollErr, enrolledKey,
                                   rotated, lastErr>>

ClientRotateCall ==
    /\ UNCHANGED aux
    /\ pc = "rotating"
    /\ ~tokClient
    /\ LET r == ClientRotate(client, token)
       IN  IF r.err # NoError THEN Fails(r.err)
           ELSE /\ client' = r.client
                /\ tokClient' = TRUE
                /\ pc' = IF tokRecord THEN "rotated" ELSE "rotating"
                /\ rotated' = (rotated \/ tokRecord)
                /\ UNCHANGED <<serverKeypair, enrollment, password, rec, enrollErr,
                               enrolledKey, attempt, req, resp, result, token,
                               tokRecord, old, lastErr>>

UpdateRecordCall ==
    /\ UNCHANGED aux
    /\ pc = "rotating"
    /\ ~tokRecord
    /\ LET r == UpdateRecord(rec, token)
       IN  IF r.err # NoError THEN Fails(r.err)
           ELSE /\ rec' = r.updRec
                /\ tokRecord' = TRUE
                /\ pc' = IF tokClient THEN "rotated" ELSE "rotating"
                /\ rotated' = (rotated \/ tokClient)
                /\ UNCHANGED <<serverKeypair, client, enrollment, password, enrollErr,
                               enrolledKey, attempt, req, resp, result, token,
                               tokClient, old, lastErr>>

Next ==
    \/ GenerateServerKeypairCall
    \/ NewClientCall
    \/ GetEnrollmentCall
    \/ EnrollAccountCall
    \/ CreateVerifyPasswordRequestCall
    \/ VerifyPasswordCall
    \/ CheckResponseAndDecryptCall
    \/ RotateCall
    \/ ClientRotateCall
    \/ UpdateRecordCall

Spec == Init /\ [][Next]_vars

\* the protocol scenario without password verification
NextUpdate ==
    \/ GenerateServerKeypairCall
    \/ NewClientCall
    \/ GetEnrollmentCall
    \/ EnrollAccountCall
    \/ RotateCall
    \/ ClientRotateCall
    \/ UpdateRecordCall

SpecUpdate == Init /\ [][NextUpdate]_vars

\* ------------------------------------------------- properties of the scenario
serverPrivateKey == SetBytes(unmarshalKeypair(serverKeypair).PrivateKey)

\* both private keys are in [1, N)
HonestKeys ==
    /\ serverPrivateKey \in 1..(N - 1)
    /\ client.clientPrivateKey \in 1..(N - 1)

\* the C0 the client derives from the record for the password being verified
AttemptC0 ==
    pAdd(PointUnmarshal(rec.T0),
         pScalarMultInt(hashToPoint(dhc0, <<rec.NC, attempt>>),
                        gfNeg(client.clientPrivateKey)))

\* the record's two points are points of the curve, not the point at infinity
RecordFinite == ~recordParseFails(rec)
\* the proof of success of the response at hand carries no point at infinity
ProofOfSuccessFinite == ~proofOfSuccessParseFails(resp.ProofSuccess)

\* C1: with honest keys, enrollment followed by verification with the same
\* password gives Res = true, a proof of success the client accepts, no error
\* and the key EnrollAccount returned (stated for records that parse).
RoundTripCleanPath ==
    (/\ pc \in {"responded", "checked"}
     /\ ~rotated
     /\ attempt = password
     /\ HonestKeys
     /\ RecordFinite) =>
        /\ resp.Res
        /\ validateProofOfSuccess(client, resp.ProofSuccess, rec.NS, AttemptC0,
                                  PointUnmarshal(resp.C1), Marshal(AttemptC0), resp.C1)
        /\ (pc = "checked" => (result.err = NoError /\ result.key = enrolledKey))

\* the round trip does hold whenever the blinding scalar of the proof was not
\* zero, that is, whenever the proof's terms are not the point at infinity
RoundTripFiniteProof ==
    (/\ pc \in {"responded", "checked"}
     /\ attempt = password
     /\ HonestKeys
     /\ RecordFinite) =>
        /\ resp.Res
        /\ ProofOfSuccessFinite =>
              /\ validateProofOfSuccess(client, resp.ProofSuccess, rec.NS, AttemptC0,
                                        PointUnmarshal(resp.C1), Marshal(AttemptC0),
                                        resp.C1)
              /\ (pc = "checked" => (result.err = NoError /\ result.key = enrolledKey))

\* whether the client's validateProofOfFail accepts the response at hand
ProofOfFailAccepted ==
    validateProofOfFail(client, resp, AttemptC0, PointUnmarshal(resp.C1),
                        hashToPoint(dhs0, <<rec.NS>>),
                        hashToPoint(dhc0, <<rec.NC, attempt>>),
                        hashToPoint(dhc1, <<rec.NC, attempt>>)) = NoError

\* C2: with honest keys and a password whose hash-to-curve point differs from
\* the enrolled one, once the server has answered Res = false with a proof of
\* failure the client accepts, CheckResponseAndDecrypt returns a non-nil error
\* (InvalidPassword) and no key.
WrongPasswordRejected ==
    (/\ pc = "checked"
     /\ ~rotated
     /\ attempt # password
     /\ HonestKeys
     /\ hashToPoint(dhc0, <<rec.NC, attempt>>) # hashToPoint(dhc0, <<rec.NC, password>>)
     /\ ~resp.Res
     /\ ProofOfFailAccepted) =>
        (result.err # NoError /\ result.key = <<>>)

\* C3: after any number of completed rotations (token applied to the client
\* and to the record), verification with the enrolled password runs to the
\* end, gives Res = true and the key EnrollAccount returned (stated for
\* records that parse).
RotationPreservesKey ==
    (/\ rotated
     /\ attempt = password
     /\ RecordFinite
     /\ pc \in {"failed", "responded", "checked"}) =>
        /\ pc # "failed"
        /\ resp.Res
        /\ (pc = "checked" => (result.err = NoError /\ result.key = enrolledKey))

\* C10: on the failure branch the C1 of the response differs from y * HS1,
\* whatever the random r was.
FailureC1NeverCollides ==
    (pc = "responded" /\ ~resp.Res) =>
        PointUnmarshal(resp.C1) #
            pScalarMult(hashToPoint(dhs1, <<req.NS>>),
                        unmarshalKeypair(serverKeypair).PrivateKey)

\* what a completed rotation relates: the token, and the keys and record
\* before and after it
RotA == SetBytes(token.A)
RotB == SetBytes(token.B)
RotHC0 == hashToPoint(dhc0, <<rec.NC, password>>)
RotHS0 == hashToPoint(dhs0, <<rec.NS>>)
\* T0 - x * HC0 before and after
RotOldUnblinded ==
    pAdd(PointUnmarshal(old.rec.T0),
         pNeg(pScalarMultInt(RotHC0, old.client.clientPrivateKey)))
RotNewUnblinded ==
    pAdd(PointUnmarshal(rec.T0), pNeg(pScalarMultInt(RotHC0, client.clientPrivateKey)))
\* the C0 the server computes for the record's nonce, before and after
RotOldC0 == eval(unmarshalKeypair(old.serverKeypair), rec.NS).c0
RotNewC0 == eval(unmarshalKeypair(serverKeypair), rec.NS).c0

PointForgeries(b) ==
    {<<>>, Marshal(0), Marshal(1 + ((IF Len(b) = 2 THEN b[2] ELSE 0) % (N - 1)))}
\* ... and in place of a scalar: the next scalar
ScalarForgeries(b) == {Bytes((SetBytes(b) + 1) % N)}

ForgedProofsOfSuccess(p) ==
    {[p EXCEPT !.Term1 = v] : v \in PointForgeries(p.Term1)} \cup
    {[p EXCEPT !.Term2 = v] : v \in PointForgeries(p.Term2)} \cup
    {[p EXCEPT !.Term3 = v] : v \in PointForgeries(p.Term3)} \cup
    {[p EXCEPT !.BlindX = v] : v \in ScalarForgeries(p.BlindX)}

ForgedProofsOfFail(p) ==
    {[p EXCEPT !.Term1 = v] : v \in PointForgeries(p.Term1)} \cup
    {[p EXCEPT !.Term2 = v] : v \in PointForgeries(p.Term2)} \cup
    {[p EXCEPT !.Term3 = v] : v \in PointForgeries(p.Term3)} \cup
    {[p EXCEPT !.Term4 = v] : v \in PointForgeries(p.Term4)} \cup
    {[p EXCEPT !.BlindA = v] : v \in ScalarForgeries(p.BlindA)} \cup
    {[p EXCEPT !.BlindB = v] : v \in ScalarForgeries(p.BlindB)}

\* an enrollment response: the honest one, none at all, or one field replaced
ForgedEnrollments(r) ==
    {r, NilEnrollmentResponse} \cup
    {[r EXCEPT !.C0 = v] : v \in PointForgeries(r.C0)} \cup
    {[r EXCEPT !.C1 = v] : v \in PointForgeries(r.C1)} \cup
    {[r EXCEPT !.Proof = v] : v \in ForgedProofsOfSuccess(r.Proof)}

\* a verification response: the honest one, none at all, the verdict flipped
\* under the same proofs, or one field replaced
ForgedResponses(r) ==
    {r, NilResponse, [r EXCEPT !.Res = ~r.Res]} \cup
    {[r EXCEPT !.C1 = v] : v \in PointForgeries(r.C1)} \cup
    (IF r.Res
     THEN {[r EXCEPT !.ProofSuccess = v] : v \in ForgedProofsOfSuccess(r.ProofSuccess)}
     ELSE {[r EXCEPT !.ProofFail = v] : v \in ForgedProofsOfFail(r.ProofFail)})

\* the randomness a hostile server bothers to use
ForgerEntropy == {e \in Entropy : SetBytes(e) \in {1, 2}}

ForgedGetEnrollmentCall ==
    /\ UNCHANGED aux
    /\ pc = "ready"
    /\ \E ns \in Nonces, priv \in ForgerEntropy :
        \E forged \in ForgedEnrollments(GetEnrollment(serverKeypair, ns, priv).response) :
            /\ enrollment' = forged
            /\ pc' = "enrolling"
            /\ UNCHANGED <<serverKeypair, client, password, rec, enrollErr,
                           enrolledKey, attempt, req, resp, result, token,
                           tokClient, tokRecord, old, rotated, lastErr>>

ForgedVerifyPasswordCall ==
    /\ UNCHANGED aux
    /\ pc = "requested"
    /\ \E r1 \in ForgerEntropy, r2 \in ForgerEntropy, r3 \in ForgerEntropy :
        LET r == VerifyPassword(serverKeypair, req, <<r1, r2, r3>>)
        IN  /\ r.err = NoError
            /\ \E forged \in ForgedResponses(r.response) :
                /\ resp' = forged
                /\ pc' = "responded"
                /\ UNCHANGED <<serverKeypair, client, enrollment, password, rec,
                               enrollErr, enrolledKey, attempt, req, result, token,
                               tokClient, tokRecord, old, rotated, lastErr>>

NextForged ==
    \/ GenerateServerKeypairCall
    \/ NewClientCall
    \/ ForgedGetEnrollmentCall
    \/ EnrollAccountCall
    \/ CreateVerifyPasswordRequestCall
    \/ ForgedVerifyPasswordCall
    \/ CheckResponseAndDecryptCall

SpecForged == Init /\ [][NextForged]_vars

\* EnrollAccount has returned and its response is still at hand
EnrollAccountReturned == pc \in {"enrolled", "failed"} /\ password # <<>> /\ attempt = <<>>
CheckReturned == pc = "checked"

\* C4: EnrollAccount and CheckResponseAndDecrypt return no key together with
\* an error, and return a key only after validateProofOfSuccess has accepted
\* the response's proof for NS, C0, C1 under the client's server public key
\* (for CheckResponseAndDecrypt only when Res is true as well).
NoKeyWithoutValidProof ==
    /\ EnrollAccountReturned =>
          /\ (enrollErr # NoError => enrolledKey = <<>>)
          /\ (enrolledKey # <<>> =>
                /\ enrollment # NilEnrollmentResponse
                /\ ~PointUnmarshalFails(enrollment.C0)
                /\ ~PointUnmarshalFails(enrollment.C1)
                /\ validateProofOfSuccess(client, enrollment.Proof, enrollment.NS,
                                          PointUnmarshal(enrollment.C0),
                                          PointUnmarshal(enrollment.C1),
                                          enrollment.C0, enrollment.C1))
    /\ CheckReturned =>
          /\ (result.err # NoError => result.key = <<>>)
          /\ (result.key # <<>> =>
                /\ resp # NilResponse
                /\ resp.Res
                /\ ~PointUnmarshalFails(resp.C1)
                /\ validateProofOfSuccess(client, resp.ProofSuccess, rec.NS, AttemptC0,
                                          PointUnmarshal(resp.C1), Marshal(AttemptC0),
                                          resp.C1))

\* a response announcing success with a well-formed proof that does not
\* verify was refused: an error and no key
ForgedResponseRefused ==
    /\ CheckReturned
    /\ resp # NilResponse
    /\ resp.Res
    /\ result.err = "result is ok but proof is invalid"
    /\ result.key = <<>>
    /\ ~proofOfSuccessParseFails(resp.ProofSuccess)

\* the proof of the response at hand was refused by CheckResponseAndDecrypt
ProofErrors ==
    {"result is ok but proof is invalid", "invalid public key",
     "proof verification failed", "verification failed"}
ProofRefused(r) == r.err \in ProofErrors

\* C5: whenever CheckResponseAndDecrypt refuses a proof, malformed or failing
\* either equation, it returns the same error as for any other refused proof
\* on the same branch (Res true or Res false).
ProofErrorsIndistinguishable ==
    (CheckReturned /\ ProofRefused(result)) =>
        \A other \in ForgedResponses(resp) :
            LET r == CheckResponseAndDecrypt(client, attempt, rec, other)
            IN  (other # NilResponse /\ other.Res = resp.Res /\ ~r.panic /\ ProofRefused(r))
                    => r.err = result.err

\* ============================================================== RandomZ alone
\* number of reads the entropy source is prepared to serve
MaxDraws == 2

EntropyStreams == [1..MaxDraws -> Entropy]

InitRandomZ ==
    /\ ProtocolInit
    /\ entropy \in EntropyStreams
    /\ call = [entropy |-> entropy]
    /\ z = -1
    /\ rzpc = "loop"
    /\ rotWrites = 0
    /\ reader = NilReader

\* one pass of the loop `for z == nil`: read, then panic or assign z
RandomZRead ==
    /\ rzpc = "loop"
    /\ z = -1
    /\ Len(entropy) > 0
    /\ LET r == RandomZ(Head(entropy))
       IN  /\ entropy' = Tail(entropy)
           /\ IF r.panic
              THEN rzpc' = "panicked" /\ z' = z
              ELSE rzpc' = "returned" /\ z' = r.z
    /\ UNCHANGED <<pc, serverKeypair, client, enrollment, password, rec, enrollErr,
                   enrolledKey, attempt, req, resp, result, token, tokClient,
                   tokRecord, old, rotated, lastErr, call, rotWrites, reader>>

NextRandomZ == RandomZRead

SpecRandomZ == InitRandomZ /\ [][NextRandomZ]_vars

\* the first read below N of a stream, -1 when there is none
RECURSIVE FirstInRange(_)
FirstInRange(stream) ==
    IF Len(stream) = 0 THEN -1
    ELSE IF SetBytes(Head(stream)) < N THEN SetBytes(Head(stream))
    ELSE FirstInRange(Tail(stream))

\* C7: RandomZ discards a read >= N and reads again, returns the first read
\* below N, and no read makes it panic.
RandomZResamples ==
    /\ rzpc # "panicked"
    /\ (rzpc = "returned" => z = FirstInRange(call.entropy))

\* ============================================================ NewClient alone
\* every byte string of at most ScalarLen bytes
KeyStrings == UNION {[1..n -> 0..(ByteRadix - 1)] : n \in 0..ScalarLen}
\* encodings of a point: empty, wrong tag, infinity, the points, off the curve
PointStrings == {<<>>, <<0, 1>>} \cup {<<PointTag, k>> : k \in 0..N}

InitNewClient ==
    /\ ProtocolInit
    /\ call \in [privateKey : KeyStrings, serverPublicKey : PointStrings]
    /\ entropy = <<>>
    /\ z = -1
    /\ rzpc = "idle"
    /\ rotWrites = 0
    /\ reader = NilReader

NewClientArbitrary ==
    /\ pc = "start"
    /\ call # NilCall
    /\ LET r == NewClient(call.privateKey, call.serverPublicKey)
       IN  /\ client' = r.client
           /\ lastErr' = r.err
           /\ pc' = IF r.err = NoError THEN "constructed" ELSE "rejected"
    /\ UNCHANGED <<serverKeypair, enrollment, password, rec, enrollErr, enrolledKey,
                   attempt, req, resp, result, token, tokClient, tokRecord, old,
                   rotated>>
    /\ UNCHANGED aux

NextNewClient == NewClientArbitrary

SpecNewClient == InitNewClient /\ [][NextNewClient]_vars

\* C6: NewClient returns the invalid-private-key error and no Client when the
\* private key bytes are empty or encode a scalar outside [1, N); no Client
\* with a private key that is 0 mod N is constructed.
NewClientValidatesPrivateKey ==
    (pc \in {"constructed", "rejected"} /\ ~PointUnmarshalFails(call.serverPublicKey)) =>
        /\ (Len(call.privateKey) = 0 \/ SetBytes(call.privateKey) \notin 1..(N - 1)) =>
               (pc = "rejected" /\ lastErr = "invalid private key" /\ client = NilClient)
        /\ (pc = "constructed" => client.clientPrivateKey % N # 0)

\* ================================================== Client.Rotate, concurrently
\* the fields of the Client an operation reads, in the order it reads them
ReadsOf(op) ==
    CASE op = "EnrollAccount" ->
            <<"serverPublicKeyBytes", "serverPublicKey", "clientPrivateKey",
              "clientPrivateKey", "clientPrivateKey">>
      [] op = "CreateVerifyPasswordRequest" -> <<"clientPrivateKey">>
      [] op = "CheckResponseAndDecrypt" ->
            <<"clientPrivateKey", "serverPublicKeyBytes", "serverPublicKey",
              "clientPrivateKey">>

ClientOperations == {"EnrollAccount", "CreateVerifyPasswordRequest", "CheckResponseAndDecrypt"}

\* the values RandomZ returns
Scalars == {RandomZ(e).z : e \in {d \in Entropy : ~RandomZ(d).panic}}

InitRace ==
    /\ pc = "racing"
    /\ serverKeypair = <<>>
    /\ \E x \in Scalars, Y \in 1..(N - 1) :
          /\ NewClient(Bytes(x), Marshal(Y)).err = NoError
          /\ client = NewClient(Bytes(x), Marshal(Y)).client
    /\ enrollment = NilEnrollmentResponse
    /\ password = <<>>
    /\ rec = NilRecord
    /\ enrollErr = NoError
    /\ enrolledKey = <<>>
    /\ attempt = <<>>
    /\ req = NilRequest
    /\ resp = NilResponse
    /\ result = NilResult
    /\ token \in {[A |-> Bytes(a), B |-> Bytes(b)] : a \in Scalars, b \in Scalars}
    /\ tokClient = FALSE
    /\ tokRecord = FALSE
    /\ old = [serverKeypair |-> <<>>, client |-> client, rec |-> NilRecord]
    /\ rotated = FALSE
    /\ lastErr = NoError
    /\ call = NilCall
    /\ entropy = <<>>
    /\ z = -1
    /\ rzpc = "idle"
    /\ rotWrites = 0
    /\ reader \in {[op |-> op, reads |-> <<>>] : op \in ClientOperations}

\* the next assignment of Client.Rotate lands in the shared Client
RotateWrite ==
    /\ pc = "racing"
    /\ rotWrites < 4
    /\ rotWrites' = rotWrites + 1
    /\ client' = ClientRotateWrites(old.client, SetBytes(token.A), SetBytes(token.B),
                                    rotWrites + 1)
    /\ tokClient' = (rotWrites + 1 = 4)
    /\ UNCHANGED <<pc, serverKeypair, enrollment, password, rec, enrollErr, enrolledKey,
                   attempt, req, resp, result, token, tokRecord, old, rotated,
                   lastErr, call, entropy, z, rzpc, reader>>

\* the concurrent operation reads the next field it needs, without a lock
ReaderRead ==
    /\ pc = "racing"
    /\ Len(reader.reads) < Len(ReadsOf(reader.op))
    /\ reader' = [reader EXCEPT
                    !.reads = Append(@, client[ReadsOf(reader.op)[Len(@) + 1]])]
    /\ UNCHANGED <<pc, serverKeypair, client, enrollment, password, rec, enrollErr,
                   enrolledKey, attempt, req, resp, result, token, tokClient,
                   tokRecord, old, rotated, lastErr, call, entropy, z, rzpc,
                   rotWrites>>

NextRace == RotateWrite \/ ReaderRead

SpecRace == InitRace /\ [][NextRace]_vars

ReaderDone == reader # NilReader /\ Len(reader.reads) = Len(ReadsOf(reader.op))

\* every field the operation read has the value it has in Client c
ReadsFrom(c) ==
    \A i \in 1..Len(reader.reads) : reader.reads[i] = c[ReadsOf(reader.op)[i]]

\* C8: an operation running concurrently with Client.Rotate reads either the
\* keys as they were before the rotation or the keys as they are after it,
\* never a mixture.
RotateIsAtomic ==
    ReaderDone =>
        \/ ReadsFrom(old.client)
        \/ ReadsFrom(ClientRotate(old.client, token).client)

====
